---- MODULE Spec2Model ----
(***************************************************************************)
(* Model of the image tagger (src/tagger.py) and of the pool creator       *)
(* (src/pool_creator.py).                                                  *)
(*                                                                         *)
(* Strings are sequences of one-character strings, so that lower(),        *)
(* strip(), split(), sorted() and the path operations are computed and     *)
(* not assumed.  A Python list is a sequence, a Python set is a set.       *)
(*                                                                         *)
(* Three specifications share the variables:                               *)
(*   SpecDerive  the tag derivation of cmd_auto_tag as a pure function     *)
(*   SpecTagger  the add / remove / auto-tag commands over a tag store     *)
(*   SpecPool    pool_creator.main: plan, execute, write reports           *)
(***************************************************************************)
EXTENDS Integers, Sequences, FiniteSets, TLC

VARIABLES
    d_args,         \* SpecDerive: [parts, stem, max_depth, tags_from_filename]
    d_out,          \* SpecDerive: [done, hier, generated_tags]
    tree,           \* SpecTagger: image file -> [parts, stem] under the scan root
    stored,         \* SpecTagger: image file -> Xmp.dc.subject list in the file
    pre,            \* SpecTagger: stored when the last command started
    last,           \* SpecTagger: the last command, its arguments and results
    rerun_of,       \* SpecTagger: files the last command re-tagged, see CmdAutoTag
    nops,           \* SpecTagger: number of commands run
    image_data,     \* SpecPool: the records of the data CSV, [filepath, tags]
    pool_definitions, \* SpecPool: the rows of the pool CSV, [pool_name, required_tags]
    pool_reports,   \* SpecPool: pool name -> list of records (indices of image_data)
    moves_to_make,  \* SpecPool: the plan, [source, dest, pool_name, record]
    fs,             \* SpecPool: the files that exist, as paths under the CSV's directory
    dirs,           \* SpecPool: the directories made by mkdir
    reports,        \* SpecPool: the report files written, [path, pool_name, rows]
    pc,             \* SpecPool: "plan", "execute", "write", "done" or "crashed"
    done_moves      \* SpecPool: what happened to each executed assignment

derive_vars == <<d_args, d_out>>
tagger_vars == <<tree, stored, pre, last, rerun_of, nops>>
pool_vars == <<image_data, pool_definitions, pool_reports, moves_to_make, fs, dirs,
               reports, pc, done_moves>>
vars == <<d_args, d_out, tree, stored, pre, last, rerun_of, nops,
          image_data, pool_definitions, pool_reports, moves_to_make, fs, dirs,
          reports, pc, done_moves>>

(***************************************************************************)
(* Bounds of the model.                                                    *)
(***************************************************************************)
\* longest path chain (directories between scan root and image)
MaxChain == 3
\* number of tagger commands in one behaviour
MaxOps == 2
\* most records in the data CSV
MaxRecords == 2
\* most rows in the pool CSV
MaxPools == 2

(***************************************************************************)
(* Strings.                                                                *)
(***************************************************************************)
UpperCase == <<"A","B","C","D","E","F","G","H","I","J","K","L","M",
               "N","O","P","Q","R","S","T","U","V","W","X","Y","Z">>
LowerCase == <<"a","b","c","d","e","f","g","h","i","j","k","l","m",
               "n","o","p","q","r","s","t","u","v","w","x","y","z">>

ToSetOfChars(seq) == {seq[i] : i \in 1..Len(seq)}
IndexIn(seq, c) == CHOOSE i \in 1..Len(seq) : seq[i] = c
Has(seq, c) == \E i \in 1..Len(seq) : seq[i] = c
Punctuation == {" ", ",", "-", ".", "/", "_"}
Alphabet == ToSetOfChars(UpperCase) \cup ToSetOfChars(LowerCase) \cup Punctuation

\* code point of each character (the order sorted() uses)
CodePoint ==
    [c \in Alphabet |->
        IF Has(UpperCase, c) THEN 64 + IndexIn(UpperCase, c)
        ELSE IF Has(LowerCase, c) THEN 96 + IndexIn(LowerCase, c)
        ELSE CASE c = " " -> 32
               [] c = "," -> 44
               [] c = "-" -> 45
               [] c = "." -> 46
               [] c = "/" -> 47
               [] c = "_" -> 95]
Ord(c) == CodePoint[c]

\* str.lower()
LowerOf ==
    [c \in Alphabet |->
        IF Has(UpperCase, c) THEN LowerCase[IndexIn(UpperCase, c)] ELSE c]
LowerChar(c) == LowerOf[c]
Lower(s) == [i \in 1..Len(s) |-> LowerChar(s[i])]

\* str.strip()
RECURSIVE LStrip(_)
LStrip(s) == IF s # <<>> /\ Head(s) = " " THEN LStrip(Tail(s)) ELSE s
RECURSIVE RStrip(_)
RStrip(s) == IF s # <<>> /\ s[Len(s)] = " " THEN RStrip(SubSeq(s, 1, Len(s) - 1)) ELSE s
Strip(s) == RStrip(LStrip(s))

\* str.split(sep) / re.split('[seps]', s): always at least one piece
RECURSIVE Split(_, _)
Split(s, seps) ==
    IF \E i \in 1..Len(s) : s[i] \in seps
    THEN LET i == CHOOSE k \in 1..Len(s) :
                      s[k] \in seps /\ \A j \in 1..(k - 1) : s[j] \notin seps
         IN  <<SubSeq(s, 1, i - 1)>> \o Split(SubSeq(s, i + 1, Len(s)), seps)
    ELSE <<s>>

\* a < b for Python strings: lexicographic on code points
StrLess(a, b) ==
    \E i \in 1..Len(b) :
        /\ \A j \in 1..(i - 1) : j <= Len(a) /\ a[j] = b[j]
        /\ \/ i > Len(a)
           \/ Ord(a[i]) < Ord(b[i])

\* sorted(list(set))
RECURSIVE Sorted(_)
Sorted(S) ==
    IF S = {} THEN <<>>
    ELSE LET m == CHOOSE x \in S : \A y \in S : y = x \/ StrLess(x, y)
         IN  <<m>> \o Sorted(S \ {m})

\* set(list)
ToSet(seq) == {seq[i] : i \in 1..Len(seq)}

\* seq[:n], Python slice semantics (a negative n counts from the end)
SliceTo(seq, n) ==
    IF n >= 0 THEN SubSeq(seq, 1, IF n < Len(seq) THEN n ELSE Len(seq))
    ELSE SubSeq(seq, 1, IF Len(seq) + n > 0 THEN Len(seq) + n ELSE 0)

(***************************************************************************)
(* tagger.py: tag derivation of cmd_auto_tag.                              *)
(***************************************************************************)
\* --max-depth: absent (None) or an int
NoMaxDepth == [set |-> FALSE, n |-> 0]
MaxDepthOf(n) == [set |-> TRUE, n |-> n]
\* Python truthiness of args.max_depth
Truthy(max_depth) == max_depth.set /\ max_depth.n # 0

\* lines 364-366: the parts the loop runs over
TruncatedParts(parts, max_depth) ==
    IF Truthy(max_depth) /\ Len(parts) > max_depth.n
    THEN SliceTo(parts, max_depth.n)
    ELSE parts

\* lines 368-380: current_chain after the first i parts
RECURSIVE CurrentChain(_, _)
CurrentChain(parts, i) ==
    IF i = 0 THEN <<>>
    ELSE LET prev == CurrentChain(parts, i - 1)
             part_lower == Lower(parts[i])
         IN  IF prev # <<>> THEN prev \o <<"/">> \o part_lower ELSE part_lower

\* the hierarchy block without line 376 (no individual tag per segment)
HierarchyTags_ChainsOnly(parts, max_depth) ==
    IF parts # <<>>
    THEN LET p == TruncatedParts(parts, max_depth)
         IN  [i \in 1..Len(p) |-> CurrentChain(p, i)]
    ELSE <<>>

\* lines 361-383: generated_tags after the hierarchy block
HierarchyTags(parts, max_depth) ==
    IF parts # <<>>
    THEN LET p == TruncatedParts(parts, max_depth)
             individual_parts_tags == {Lower(p[i]) : i \in 1..Len(p)}
             hierarchical_tags == [i \in 1..Len(p) |-> CurrentChain(p, i)]
         IN  Sorted(individual_parts_tags) \o hierarchical_tags
    ELSE <<>>

\* lines 385-390: tokens of the file name's stem
FilenameTags(stem, tags_from_filename) ==
    IF tags_from_filename
    THEN LET tokens == Split(stem, {"-", "_"})
             kept == SelectSeq(tokens, LAMBDA t : t # <<>> /\ Len(t) > 2)
         IN  [i \in 1..Len(kept) |-> Lower(kept[i])]
    ELSE <<>>

\* lines 361-390: generated_tags of one image
GeneratedTags(parts, stem, max_depth, tags_from_filename) ==
    HierarchyTags(parts, max_depth) \o FilenameTags(stem, tags_from_filename)

(***************************************************************************)
(* SpecDerive: the derivation applied to bounded inputs.                   *)
(***************************************************************************)
Segments == {<<"a">>, <<"B">>, <<"c">>}
RECURSIVE ChainsOfLen(_)
ChainsOfLen(n) ==
    IF n = 0 THEN {<<>>}
    ELSE {Append(c, s) : c \in ChainsOfLen(n - 1), s \in Segments}
Chains == UNION {ChainsOfLen(n) : n \in 0..MaxChain}
Stems == {<<"i","m","g">>, <<"C","a","t","-","m","y","_","d","o","g">>}
MaxDepths == {NoMaxDepth} \cup {MaxDepthOf(n) : n \in (-1)..MaxChain}

NotDerived == [done |-> FALSE, hier |-> <<>>, generated_tags |-> <<>>]

TaggerIdle ==
    /\ tree = <<>>
    /\ stored = <<>>
    /\ pre = <<>>
    /\ last = <<>>
    /\ rerun_of = {}
    /\ nops = 0

PoolIdle ==
    /\ image_data = <<>>
    /\ pool_definitions = <<>>
    /\ pool_reports = <<>>
    /\ moves_to_make = <<>>
    /\ fs = {}
    /\ dirs = {}
    /\ reports = {}
    /\ pc = "idle"
    /\ done_moves = <<>>

InitDerive ==
    /\ TaggerIdle
    /\ PoolIdle
    /\ d_args \in [parts : Chains, stem : Stems, max_depth : MaxDepths,
                   tags_from_filename : BOOLEAN]
    /\ d_out = NotDerived

Derive ==
    /\ ~d_out.done
    /\ d_out' = [done |-> TRUE,
                 hier |-> HierarchyTags(d_args.parts, d_args.max_depth),
                 generated_tags |-> GeneratedTags(d_args.parts, d_args.stem,
                                                  d_args.max_depth,
                                                  d_args.tags_from_filename)]
    /\ UNCHANGED d_args
    /\ UNCHANGED <<tagger_vars, pool_vars>>

NextDerive == Derive

SpecDerive == InitDerive /\ [][NextDerive]_vars

(***************************************************************************)
(* tagger.py: the metadata engine.                                         *)
(***************************************************************************)
\* what pyexiv2 does in one call of modify_tags_on_file: whether read_xmp
\* and modify_xmp return or raise
EnvOutcomes == [read_ok : BOOLEAN, write_ok : BOOLEAN]

\* lines 95-102: final_tags_set
FinalTagsSet(existing_tags_set, new_tags_set, mode) ==
    CASE mode = "merge" -> existing_tags_set \cup new_tags_set
      [] mode = "remove" -> existing_tags_set \ new_tags_set
      [] mode = "overwrite" -> new_tags_set

\* modify_tags_on_file whose except branch (line 118) returns the computed list
modify_tags_on_file_ReturnsComputed(subject, tags_to_process, mode, env) ==
    LET existing_tags_set == IF env.read_ok THEN ToSet(subject) ELSE {}
        final_tags_list ==
            Sorted(FinalTagsSet(existing_tags_set, ToSet(tags_to_process), mode))
    IN  IF env.write_ok
        THEN [success |-> TRUE, final_tags |-> final_tags_list,
              subject |-> final_tags_list]
        ELSE [success |-> FALSE, final_tags |-> final_tags_list,
              subject |-> subject]

\* lines 60-118: modify_tags_on_file on a file whose Xmp.dc.subject is
\* `subject`; gives the returned pair and the file's Xmp.dc.subject afterwards.
\* The list of the failure return is list(set), whose order Python leaves
\* open and no caller reads; it is given sorted.
modify_tags_on_file(subject, tags_to_process, mode, env) ==
    LET existing_tags_set == IF env.read_ok THEN ToSet(subject) ELSE {}
        new_tags_set == ToSet(tags_to_process)
        known_mode == mode \in {"merge", "remove", "overwrite"}
        final_tags_list ==
            IF known_mode
            THEN Sorted(FinalTagsSet(existing_tags_set, new_tags_set, mode))
            ELSE <<>>
    IN  IF known_mode /\ env.write_ok
        THEN [success |-> TRUE, final_tags |-> final_tags_list,
              subject |-> final_tags_list]
        ELSE [success |-> FALSE, final_tags |-> Sorted(existing_tags_set),
              subject |-> subject]

(***************************************************************************)
(* tagger.py: the commands.                                                *)
(***************************************************************************)
Files == {"f1", "f2"}

\* what is kept of one call of modify_tags_on_file: its arguments, what pyexiv2
\* did, and the returned pair
NotCalled == [called |-> FALSE, mode |-> "", tags_to_process |-> <<>>,
              read_ok |-> FALSE, write_ok |-> FALSE,
              success |-> FALSE, final_tags |-> <<>>]
Called(r, tags_to_process, mode, env) ==
    [called |-> TRUE, mode |-> mode, tags_to_process |-> tags_to_process,
     read_ok |-> env.read_ok, write_ok |-> env.write_ok,
     success |-> r.success, final_tags |-> r.final_tags]

\* line 408: total_tags_added / processed_images as a fraction, 0 for no image
Quotient(total, count) ==
    IF count > 0 THEN [num |-> total, den |-> count] ELSE [num |-> 0, den |-> 1]

\* the record kept of a command
Command(cmd, image_files, tags, all, dry_run, max_depth, tags_from_filename, generated, results) ==
    [cmd |-> cmd, image_files |-> image_files, tags |-> tags, all |-> all,
     dry_run |-> dry_run, max_depth |-> max_depth,
     tags_from_filename |-> tags_from_filename,
     generated |-> generated, results |-> results,
     success_count |-> Cardinality({f \in Files : results[f].success}),
     processed_images |-> 0, total_tags_added |-> 0, avg_tags |-> Quotient(0, 0)]

NoCommand == Command("none", {}, <<>>, FALSE, FALSE, NoMaxDepth, FALSE,
                     [f \in Files |-> <<>>], [f \in Files |-> NotCalled])

\* lines 173-179, 195-201, 209-215: the loop of modify_tags_on_file calls over
\* `called`, env[f] being what pyexiv2 does for file f
ApplyToFiles(called, tags_of, mode, env) ==
    [f \in Files |->
        IF f \in called
        THEN modify_tags_on_file(stored[f], tags_of[f], mode, env[f])
        ELSE [success |-> FALSE, final_tags |-> <<>>, subject |-> stored[f]]]

\* the state after a command that called modify_tags_on_file for `called`
Ran(cmd, called, tags_of, mode, env) ==
    \E applied \in {ApplyToFiles(called, tags_of, mode, env)} :
    /\ stored' = [f \in Files |-> applied[f].subject]
    /\ pre' = stored
    /\ last' = [cmd EXCEPT !.results =
                   [f \in Files |->
                       IF f \in called
                       THEN Called(applied[f], tags_of[f], mode, env[f])
                       ELSE NotCalled],
                 !.success_count =
                   Cardinality({f \in called : applied[f].success})]
    /\ nops' = nops + 1
    /\ UNCHANGED <<tree, derive_vars, pool_vars>>

\* lines 161-181: cmd_add
cmd_add(image_files, tags, env) ==
    LET cmd == Command("add", image_files, tags, FALSE, FALSE, NoMaxDepth, FALSE,
                       [f \in Files |-> <<>>], [f \in Files |-> NotCalled])
    IN  /\ Ran(cmd, image_files, [f \in Files |-> tags], "merge", env)
        /\ rerun_of' = {}

\* cmd_remove without the guard of lines 204-206: an empty tag list clears
cmd_remove_EmptyClears(image_files, tags, all, env) ==
    LET cmd == Command("remove", image_files, tags, all, FALSE, NoMaxDepth, FALSE,
                       [f \in Files |-> <<>>], [f \in Files |-> NotCalled])
    IN  /\ IF all \/ tags = <<>>
           THEN Ran(cmd, image_files, [f \in Files |-> <<>>], "overwrite", env)
           ELSE Ran(cmd, image_files, [f \in Files |-> tags], "remove", env)
        /\ rerun_of' = {}

\* lines 183-217: cmd_remove
cmd_remove(image_files, tags, all, env) ==
    LET cmd == Command("remove", image_files, tags, all, FALSE, NoMaxDepth, FALSE,
                       [f \in Files |-> <<>>], [f \in Files |-> NotCalled])
    IN  /\ IF all
           THEN Ran(cmd, image_files, [f \in Files |-> <<>>], "overwrite", env)
           ELSE IF tags = <<>>
           THEN Ran(cmd, {}, [f \in Files |-> tags], "remove", env)
           ELSE Ran(cmd, image_files, [f \in Files |-> tags], "remove", env)
        /\ rerun_of' = {}

\* lines 40-58: get_tags_from_file; a read error gives the empty list
get_tags_from_file(subject, read_ok) == IF read_ok THEN subject ELSE <<>>

RECURSIVE SumOver(_, _)
\* the += of line 406 over the files S
SumOver(S, count) ==
    IF S = {} THEN 0
    ELSE LET f == CHOOSE g \in S : TRUE
         IN  count[f] + SumOver(S \ {f}, count)

\* lines 355-390: generated_tags of every image under the scan root
WalkTags(max_depth, tags_from_filename) ==
    [f \in Files |->
        GeneratedTags(tree[f].parts, tree[f].stem, max_depth, tags_from_filename)]

\* lines 326-416: cmd_auto_tag over the images under the scan root, `generated`
\* being WalkTags of its arguments; reread[f] is whether the
\* get_tags_from_file of line 406 can read file f
cmd_auto_tag(dry_run, max_depth, tags_from_filename, generated, env, reread) ==
    \E applied \in {ApplyToFiles(IF dry_run THEN {}
                                 ELSE {f \in Files : generated[f] # <<>>},
                                 generated, "merge", env)} :
    LET processed == {f \in Files : generated[f] # <<>>}
        called == IF dry_run THEN {} ELSE processed
        \* line 406, after the write of line 403
        added == [f \in Files |->
                    Cardinality(ToSet(generated[f]) \
                                ToSet(get_tags_from_file(applied[f].subject, reread[f])))]
        total_tags_added == SumOver({f \in called : applied[f].success}, added)
        processed_images == Cardinality(processed)
        cmd == [Command("auto-tag", Files, <<>>, FALSE, dry_run, max_depth,
                        tags_from_filename, generated, [f \in Files |-> NotCalled])
                   EXCEPT !.processed_images = processed_images,
                          !.total_tags_added = total_tags_added,
                          !.avg_tags = Quotient(total_tags_added, processed_images)]
        same_again == /\ last.cmd = "auto-tag" /\ ~last.dry_run /\ ~dry_run
                      /\ last.max_depth = max_depth
                      /\ last.tags_from_filename = tags_from_filename
    IN  /\ Ran(cmd, called, generated, "merge", env)
        \* the files this run tags again after an equal run that wrote them
        /\ rerun_of' = IF same_again
                       THEN {f \in called : last.results[f].success}
                       ELSE {}

(***************************************************************************)
(* SpecTagger: commands over a small tree of two images.                   *)
(***************************************************************************)
TagX == <<"x">>
TagZ == <<"z">>
\* the tags argument of add, with a capital and a repeated tag
AddTagLists == {<<<<"Z">>, TagX, TagX>>}
\* the tags argument of remove (nargs='*': may be empty)
RemoveTagLists == {<<>>, <<TagZ, TagX>>}
TaggerTrees ==
    {[f \in Files |-> IF f = "f1" THEN [parts |-> c, stem |-> <<"i","m","g">>]
                      ELSE [parts |-> <<>>,
                            stem |-> <<"C","a","t","-","m","y","_","d","o","g">>]]
        : c \in {<<<<"a">>, <<"B">>>>}}
TaggerMaxDepths == {NoMaxDepth, MaxDepthOf(1)}
\* what resolve_paths can give for the path argument: no match, or the images
ImageFileSets == {{}, Files}
\* pyexiv2 is only called for the files a command reaches
EnvsFor(S) == {e \in [Files -> EnvOutcomes] :
                  \A f \in Files \ S : e[f] = [read_ok |-> TRUE, write_ok |-> TRUE]}

\* line 406 only reads the files whose write succeeded
RereadsFor(S) == {r \in [Files -> BOOLEAN] : \A f \in Files \ S : r[f]}

InitTagger ==
    /\ d_args = <<>>
    /\ d_out = <<>>
    /\ PoolIdle
    /\ tree \in TaggerTrees
    /\ stored \in {[f \in Files |-> IF f = "f1" THEN s ELSE <<TagZ>>] :
                     s \in {<<>>, <<TagZ>>}}
    /\ pre = stored
    /\ last = NoCommand
    /\ rerun_of = {}
    /\ nops = 0

CmdAdd ==
    /\ nops < MaxOps
    /\ \E image_files \in ImageFileSets, tags \in AddTagLists :
       \E env \in EnvsFor(image_files) :
           cmd_add(image_files, tags, env)

CmdRemove ==
    /\ nops < MaxOps
    /\ \E image_files \in ImageFileSets, tags \in RemoveTagLists, all \in BOOLEAN :
       \E env \in EnvsFor(IF ~all /\ tags = <<>> THEN {} ELSE image_files) :
           cmd_remove(image_files, tags, all, env)

CmdAutoTag ==
    /\ nops < MaxOps
    /\ \E dry_run \in BOOLEAN, max_depth \in TaggerMaxDepths,
          tags_from_filename \in BOOLEAN :
       \E generated \in {WalkTags(max_depth, tags_from_filename)} :
       \E env \in EnvsFor(IF dry_run THEN {}
                          ELSE {f \in Files : generated[f] # <<>>}) :
       \E reread \in RereadsFor({f \in Files : env[f].write_ok /\ ~dry_run}) :
           cmd_auto_tag(dry_run, max_depth, tags_from_filename, generated, env, reread)

NextTagger == CmdAdd \/ CmdRemove \/ CmdAutoTag

SpecTagger == InitTagger /\ [][NextTagger]_vars

(***************************************************************************)
(* pool_creator.py: paths and tag strings.                                 *)
(***************************************************************************)
\* Path(str): the components of a relative path
PathOf(str) == SelectSeq(Split(str, {"/"}), LAMBDA c : c # <<>>)

\* str(path).replace('\\', '/')
RECURSIVE PathStr(_)
PathStr(path) ==
    IF path = <<>> THEN <<>>
    ELSE IF Len(path) = 1 THEN path[1]
    ELSE path[1] \o <<"/">> \o PathStr(Tail(path))

\* path.name and path.parent
NameOf(path) == IF path = <<>> THEN <<>> ELSE path[Len(path)]
ParentOf(path) == IF path = <<>> THEN <<>> ELSE SubSeq(path, 1, Len(path) - 1)

\* path.suffix: from the last dot of the name, none for a leading or final dot
SuffixOf(path) ==
    LET name == NameOf(path)
        dots == {i \in 1..Len(name) : name[i] = "."}
    IN  IF dots = {} THEN <<>>
        ELSE LET i == CHOOSE d \in dots : \A e \in dots : e <= d
             IN  IF i > 1 /\ i < Len(name) THEN SubSeq(name, i, Len(name)) ELSE <<>>

\* line 101: the extensions pass 1 accepts
PoolExts == {<<".","j","p","g">>, <<".","j","p","e","g">>, <<".","p","n","g">>,
             <<".","w","e","b","p">>, <<".","t","i","f">>, <<".","t","i","f","f">>}

\* lines 104, 112: {tag.strip() for tag in s.split(',') if tag.strip()}
TagSetOf(str) == {Strip(t) : t \in ToSet(Split(str, {","}))} \ {<<>>}

(***************************************************************************)
(* pool_creator.py: reading the pool CSV (lines 72-83).                    *)
(***************************************************************************)
\* line 78: one-column format, every row (the header too) is a pool
OneColumnPools(rows) ==
    LET kept == SelectSeq(rows, LAMBDA row : row # <<>> /\ Strip(row[1]) # <<>>)
    IN  [i \in 1..Len(kept) |->
            [pool_name |-> Strip(kept[i][1]), required_tags |-> Strip(kept[i][1])]]

\* lines 82-83: standard format, the rows below the header as they are
StandardPools(rows) ==
    [i \in 1..Len(rows) |-> [pool_name |-> rows[i][1], required_tags |-> rows[i][2]]]

(***************************************************************************)
(* pool_creator.py: pass 1 (lines 94-120).                                 *)
(***************************************************************************)
\* line 96: the keys of pool_reports
ReportKeys(pools) == {pools[k].pool_name : k \in 1..Len(pools)}

\* the pool scan without the break of line 120: the last match wins
FirstMatch_LastWins(pools, image_tags, k) ==
    LET matching == {j \in k..Len(pools) :
                        /\ Strip(pools[j].pool_name) # <<>>
                        /\ Strip(pools[j].required_tags) # <<>>
                        /\ TagSetOf(Strip(pools[j].required_tags)) \subseteq image_tags}
    IN  IF matching = {} THEN 0
        ELSE CHOOSE j \in matching : \A i \in matching : i <= j

\* lines 106-120: the first pool from k on that takes the image, 0 if none
RECURSIVE FirstMatch(_, _, _)
FirstMatch(pools, image_tags, k) ==
    IF k > Len(pools) THEN 0
    ELSE LET pool_name == Strip(pools[k].pool_name)
             required_tags_str == Strip(pools[k].required_tags)
         IN  IF pool_name = <<>> \/ required_tags_str = <<>>
             THEN FirstMatch(pools, image_tags, k + 1)
             ELSE IF TagSetOf(required_tags_str) \subseteq image_tags
             THEN k
             ELSE FirstMatch(pools, image_tags, k + 1)

\* pass 1 without the break of line 120: one move for every pool that matches
RECURSIVE PlanMoves_EveryMatch(_, _, _)
PlanMoves_EveryMatch(records, pools, i) ==
    IF i > Len(records) THEN <<>>
    ELSE LET image_path == PathOf(records[i].filepath)
             image_tags == TagSetOf(records[i].tags)
             taking == SelectSeq([k \in 1..Len(pools) |-> k],
                                 LAMBDA k : FirstMatch(pools, image_tags, k) = k)
             planned ==
                 IF Lower(SuffixOf(image_path)) \notin PoolExts THEN <<>>
                 ELSE [j \in 1..Len(taking) |->
                          [source |-> image_path,
                           dest |-> Append(ParentOf(image_path),
                                           Strip(pools[taking[j]].pool_name)),
                           pool_name |-> Strip(pools[taking[j]].pool_name),
                           record |-> i]]
         IN  planned \o PlanMoves_EveryMatch(records, pools, i + 1)

\* lines 99-120: the moves planned for records i.. (paths are relative to the
\* directory of the data CSV)
RECURSIVE PlanMoves(_, _, _)
PlanMoves(records, pools, i) ==
    IF i > Len(records) THEN <<>>
    ELSE LET image_path == PathOf(records[i].filepath)
             image_tags == TagSetOf(records[i].tags)
             k == FirstMatch(pools, image_tags, 1)
             source_file == image_path
             planned ==
                 IF Lower(SuffixOf(image_path)) \notin PoolExts \/ k = 0
                 THEN <<>>
                 ELSE <<[source |-> source_file,
                         dest |-> Append(ParentOf(source_file),
                                         Strip(pools[k].pool_name)),
                         pool_name |-> Strip(pools[k].pool_name),
                         record |-> i]>>
         IN  planned \o PlanMoves(records, pools, i + 1)

Plan ==
    /\ pc = "plan"
    /\ pool_reports' = [key \in ReportKeys(pool_definitions) |-> <<>>]
    /\ moves_to_make' = PlanMoves(image_data, pool_definitions, 1)
    /\ pc' = IF moves_to_make' = <<>> THEN "write" ELSE "execute"
    /\ UNCHANGED <<image_data, pool_definitions, fs, dirs, reports, done_moves>>
    /\ UNCHANGED <<derive_vars, tagger_vars>>

(***************************************************************************)
(* pool_creator.py: pass 2 (lines 126-144), one assignment per step.       *)
(***************************************************************************)
\* what the file system does for one assignment: whether mkdir and
\* shutil.move return or raise
MoveOutcomes == [mkdir_ok : BOOLEAN, move_ok : BOOLEAN]

\* lines 127-144 with the mkdir of line 135 before the existence test of line 131
ExecuteMove_MkdirFirst(n, env) ==
    LET move == moves_to_make[n]
        new_path == Append(move.dest, NameOf(move.source))
        next_pc == IF n = Len(moves_to_make) THEN "write" ELSE "execute"
    IN  IF ~env.mkdir_ok \/ move.dest \in fs
        THEN /\ done_moves' = Append(done_moves, "mkdir raised")
             /\ pc' = "crashed"
             /\ UNCHANGED <<image_data, pool_reports, fs, dirs>>
        ELSE IF move.source \notin fs
        THEN /\ done_moves' = Append(done_moves, "skipped")
             /\ dirs' = dirs \cup {move.dest}
             /\ pc' = next_pc
             /\ UNCHANGED <<image_data, pool_reports, fs>>
        ELSE IF ~env.move_ok \/ new_path \in fs
        THEN /\ done_moves' = Append(done_moves, "move raised")
             /\ dirs' = dirs \cup {move.dest}
             /\ pc' = next_pc
             /\ UNCHANGED <<image_data, pool_reports, fs>>
        ELSE /\ dirs' = dirs \cup {move.dest}
             /\ fs' = (fs \ {move.source}) \cup {new_path}
             /\ image_data' = [image_data EXCEPT ![move.record].filepath =
                                    PathStr(new_path)]
             /\ IF move.pool_name \in DOMAIN pool_reports
                THEN /\ pool_reports' = [pool_reports EXCEPT ![move.pool_name] =
                                            Append(@, move.record)]
                     /\ done_moves' = Append(done_moves, "moved")
                ELSE /\ pool_reports' = pool_reports
                     /\ done_moves' = Append(done_moves, "moved, KeyError")
             /\ pc' = next_pc

\* lines 127-144 for moves_to_make[n]
ExecuteMove(n, env) ==
    LET move == moves_to_make[n]
        source_path == move.source
        dest_dir == move.dest
        pool_name == move.pool_name
        new_path == Append(dest_dir, NameOf(source_path))
        next_pc == IF n = Len(moves_to_make) THEN "write" ELSE "execute"
    IN  IF source_path \notin fs
        THEN \* lines 131-133
             /\ done_moves' = Append(done_moves, "skipped")
             /\ pc' = next_pc
             /\ UNCHANGED <<image_data, pool_reports, fs, dirs>>
        ELSE IF ~env.mkdir_ok \/ dest_dir \in fs
        THEN \* line 135 raises outside the try: the exception ends main
             /\ done_moves' = Append(done_moves, "mkdir raised")
             /\ pc' = "crashed"
             /\ UNCHANGED <<image_data, pool_reports, fs, dirs>>
        ELSE IF ~env.move_ok \/ new_path \in fs
        THEN \* line 137 raises, caught at line 143
             /\ done_moves' = Append(done_moves, "move raised")
             /\ dirs' = dirs \cup {dest_dir}
             /\ pc' = next_pc
             /\ UNCHANGED <<image_data, pool_reports, fs>>
        ELSE \* lines 137-141; line 141 raises KeyError, caught at line 143,
             \* when the stripped name is no key of pool_reports
             /\ dirs' = dirs \cup {dest_dir}
             /\ fs' = (fs \ {source_path}) \cup {new_path}
             /\ image_data' = [image_data EXCEPT ![move.record].filepath =
                                    PathStr(new_path)]
             /\ IF pool_name \in DOMAIN pool_reports
                THEN /\ pool_reports' = [pool_reports EXCEPT ![pool_name] =
                                            Append(@, move.record)]
                     /\ done_moves' = Append(done_moves, "moved")
                ELSE /\ pool_reports' = pool_reports
                     /\ done_moves' = Append(done_moves, "moved, KeyError")
             /\ pc' = next_pc

Execute ==
    /\ pc = "execute"
    /\ \E env \in MoveOutcomes : ExecuteMove(Len(done_moves) + 1, env)
    /\ UNCHANGED <<pool_definitions, moves_to_make, reports>>
    /\ UNCHANGED <<derive_vars, tagger_vars>>

(***************************************************************************)
(* pool_creator.py: the reports (lines 148-161).                           *)
(***************************************************************************)
ReportName(pool_name) ==
    <<"_","r","e","p","o","r","t","_">> \o pool_name \o <<".","c","s","v">>

\* lines 151-158: the report of one pool with rows
ReportOf(pool_name, report_data) ==
    LET report_dir == PathOf(image_data[report_data[1]].filepath)
    IN  [path |-> Append(ParentOf(report_dir), ReportName(pool_name)),
         pool_name |-> pool_name,
         rows |-> [j \in 1..Len(report_data) |->
                      [filepath |-> image_data[report_data[j]].filepath,
                       tags |-> image_data[report_data[j]].tags]]]

\* lines 148-161; `unwritable` are the pools whose open() raises IOError
WriteReports(unwritable) ==
    LET written == {key \in DOMAIN pool_reports :
                       pool_reports[key] # <<>> /\ key \notin unwritable}
    IN  /\ reports' = {ReportOf(key, pool_reports[key]) : key \in written}
        /\ fs' = fs \cup {ReportOf(key, pool_reports[key]).path : key \in written}
        /\ pc' = "done"

Write ==
    /\ pc = "write"
    /\ \E unwritable \in SUBSET {key \in DOMAIN pool_reports : pool_reports[key] # <<>>} :
           WriteReports(unwritable)
    /\ UNCHANGED <<image_data, pool_definitions, pool_reports, moves_to_make, dirs,
                   done_moves>>
    /\ UNCHANGED <<derive_vars, tagger_vars>>

(***************************************************************************)
(* SpecPool: one run of main over a small data CSV and pool CSV.           *)
(***************************************************************************)
RECURSIVE SeqsUpTo(_, _)
SeqsUpTo(S, n) ==
    IF n = 0 THEN {<<>>}
    ELSE LET shorter == SeqsUpTo(S, n - 1)
         IN  shorter \cup {Append(q, x) : q \in shorter, x \in S}

StrXY == <<"x", ",", " ", "y">>
StrY == <<"y">>
StrP1 == <<"P", "1">>
\* rows of the data CSV: two folders, a repeated file, a file that is no image
DataRows ==
    {[filepath |-> <<"d","/","a",".","J","P","G">>, tags |-> StrXY],
     [filepath |-> <<"d","/","a",".","J","P","G">>, tags |-> StrY],
     [filepath |-> <<"e","/","b",".","p","n","g">>, tags |-> TagX],
     [filepath |-> <<"n",".","t","x","t">>, tags |-> TagX]}
\* rows of a pool CSV in the standard format: [pool_name, required_tags]
StandardRows ==
    {<<StrP1, TagX>>, <<<<"P", "2">>, StrXY>>, <<<<" ">> \o StrP1, StrY>>,
     <<<<"P", "0">>, <<>>>>}
\* rows of a pool CSV in the one-column format
OneColumnRows == {<<<<" ", "y">>>>, <<TagX>>}
PoolFiles ==
    {StandardPools(rows) : rows \in SeqsUpTo(StandardRows, MaxPools)}
        \cup {OneColumnPools(rows) : rows \in SeqsUpTo(OneColumnRows, MaxPools)}

FilesOf(records) == {PathOf(records[i].filepath) : i \in 1..Len(records)}

InitPool ==
    /\ d_args = <<>>
    /\ d_out = <<>>
    /\ TaggerIdle
    /\ image_data \in SeqsUpTo(DataRows, MaxRecords)
    /\ pool_definitions \in PoolFiles
    \* every file of the data CSV exists, or all but one
    /\ fs \in {FilesOf(image_data)} \cup
              {FilesOf(image_data) \ {p} : p \in FilesOf(image_data)}
    /\ pool_reports = <<>>
    /\ moves_to_make = <<>>
    /\ dirs = {}
    /\ reports = {}
    /\ pc = "plan"
    /\ done_moves = <<>>

NextPool == Plan \/ Execute \/ Write

SpecPool == InitPool /\ [][NextPool]_vars

(***************************************************************************)
(* Properties of the tag derivation (SpecDerive).                          *)
(***************************************************************************)
\* '/'.join(seqs)
RECURSIVE JoinSlash(_)
JoinSlash(seqs) ==
    IF seqs = <<>> THEN <<>>
    ELSE IF Len(seqs) = 1 THEN seqs[1]
    ELSE seqs[1] \o <<"/">> \o JoinSlash(Tail(seqs))

\* every lower-cased segment and every lower-cased prefix chain of `segs`
SegmentsAndChains(segs) ==
    {Lower(segs[i]) : i \in 1..Len(segs)}
        \cup {Lower(JoinSlash(SubSeq(segs, 1, i))) : i \in 1..Len(segs)}

\* --max-depth is absent, or the chain is no longer than it
KeepsWholeChain ==
    \/ ~d_args.max_depth.set
    \/ d_args.max_depth.n >= Len(d_args.parts)

\* C5: for an image under the directories s1..sn (n >= 0) the hierarchical
\* part of the generated tags is exactly the set of the lower-cased segments
\* si and of the prefix chains s1/.../si, i = 1..n; nothing for n = 0.
\* (Stated for the runs in which --max-depth cuts nothing.)
C5_HierarchyDerivation ==
    (d_out.done /\ KeepsWholeChain)
        => ToSet(d_out.hier) = SegmentsAndChains(d_args.parts)

\* segments a, B, c without --max-depth gave {a, b, c, a/b, a/b/c}
C5_Witness ==
    /\ d_out.done
    /\ ~d_args.max_depth.set
    /\ d_args.parts = <<<<"a">>, <<"B">>, <<"c">>>>
    /\ ToSet(d_out.hier) = {<<"a">>, <<"b">>, <<"c">>, <<"a","/","b">>,
                            <<"a","/","b","/","c">>}

\* C6: with --max-depth N (N >= 0) and a chain longer than N, the hierarchical
\* tags are derived from the first N segments only.
C6_MaxDepthTruncation ==
    (/\ d_out.done
     /\ d_args.max_depth.set
     /\ d_args.max_depth.n >= 0
     /\ Len(d_args.parts) > d_args.max_depth.n)
        => ToSet(d_out.hier)
              = SegmentsAndChains(SubSeq(d_args.parts, 1, d_args.max_depth.n))

(***************************************************************************)
(* Properties of the tagger commands (SpecTagger).                         *)
(***************************************************************************)
\* the set the merge engine is specified to leave for existing E, operand X
EngineResult(E, X, mode) ==
    CASE mode = "merge" -> E \cup X
      [] mode = "remove" -> E \ X
      [] mode = "overwrite" -> X

\* C3: a successful modify_tags_on_file on a file storing E, with operand X,
\* leaves E \cup X (merge), E \ X (remove) or X (overwrite) stored in the file
\* and returns that set.
C3_ModifyLeavesEngineResult ==
    \A f \in Files :
        LET r == last.results[f]
        IN  (r.called /\ r.success)
                => LET want == EngineResult(ToSet(pre[f]), ToSet(r.tags_to_process),
                                            r.mode)
                   IN  /\ ToSet(stored[f]) = want
                       /\ ToSet(r.final_tags) = want

\* C4: after add or auto-tag every tag a file stored before is still stored,
\* whatever the read and the write did.
C4_MergeKeepsStoredTags ==
    last.cmd \in {"add", "auto-tag"}
        => \A f \in Files : ToSet(pre[f]) \subseteq ToSet(stored[f])

\* C7: a second auto-tag run with the same options over the same tree leaves
\* each file as the first run left it.
C7_AutoTagTwiceSameAsOnce ==
    \A f \in rerun_of : stored[f] = pre[f]

\* C8: remove --all calls the engine in mode overwrite with an empty operand
\* and every file written then stores no tag; remove with no tag and without
\* --all calls nothing and changes no file.
C8_RemoveVersusRemoveAll ==
    last.cmd = "remove"
        => /\ last.all
                => \A f \in last.image_files :
                       LET r == last.results[f]
                       IN  /\ r.called
                           /\ r.mode = "overwrite"
                           /\ r.tags_to_process = <<>>
                           /\ r.success => stored[f] = <<>>
           /\ (~last.all /\ last.tags = <<>>)
                => /\ stored = pre
                   /\ \A f \in Files : ~last.results[f].called

\* remove --all emptied a file that stored a tag
C8_Witness ==
    /\ last.cmd = "remove"
    /\ last.all
    /\ \E f \in last.image_files :
           /\ last.results[f].success
           /\ pre[f] # <<>>
           /\ stored[f] = <<>>

(***************************************************************************)
(* Properties of the pool creator (SpecPool).                              *)
(***************************************************************************)
Planned == pc # "plan"
MoveIndices == 1..Len(moves_to_make)
MovesOfRecord(i) == {n \in MoveIndices : moves_to_make[n].record = i}

\* the pools whose required tags are all among the tags of record i
PoolsWithin(i) ==
    {k \in 1..Len(pool_definitions) :
        TagSetOf(pool_definitions[k].required_tags) \subseteq TagSetOf(image_data[i].tags)}
\* the pools pass 1 looks at: name and required tags not blank
UsablePools ==
    {k \in 1..Len(pool_definitions) :
        /\ Strip(pool_definitions[k].pool_name) # <<>>
        /\ Strip(pool_definitions[k].required_tags) # <<>>}
IsImage(i) == Lower(SuffixOf(PathOf(image_data[i].filepath))) \in PoolExts
Earliest(S) == CHOOSE k \in S : \A j \in S : k <= j
\* record i has exactly one move, into pool k
AssignedTo(i, k) ==
    /\ Cardinality(MovesOfRecord(i)) = 1
    /\ \A n \in MovesOfRecord(i) :
           moves_to_make[n].pool_name = Strip(pool_definitions[k].pool_name)
\* record i has no move and its row is as it was read
LeftAlone(i) ==
    /\ MovesOfRecord(i) = {}
    /\ image_data[i] \in DataRows

\* C1 as stated: every record goes to the earliest pool whose required tags are
\* a subset of its tags, and a record no pool matches is not assigned or moved.
C1_FirstMatchWins_AsStated ==
    Planned =>
        \A i \in 1..Len(image_data) :
            IF PoolsWithin(i) # {}
            THEN AssignedTo(i, Earliest(PoolsWithin(i)))
            ELSE LeftAlone(i)

\* C1, amended: a record whose file has an image extension goes to the earliest
\* pool, among the pools with a non-blank name and non-blank required tags,
\* whose required tags are a subset of its tags; every other record has no
\* assignment and pass 2 never touches it.
C1_FirstMatchWins ==
    Planned =>
        \A i \in 1..Len(image_data) :
            LET matching == PoolsWithin(i) \cap UsablePools
            IN  IF IsImage(i) /\ matching # {}
                THEN AssignedTo(i, Earliest(matching))
                ELSE LeftAlone(i)

\* an image tagged x, y went to P1 (needs x) although P2 (needs x, y) follows
C1_Witness ==
    /\ Planned
    /\ \E i \in 1..Len(image_data) :
           /\ Cardinality(PoolsWithin(i) \cap UsablePools) >= 2
           /\ image_data[i].tags = StrXY
           /\ \E n \in MovesOfRecord(i) : moves_to_make[n].pool_name = StrP1

\* C2 as stated: no image file is in two assignments of the plan, also when
\* the inventory lists the file in more than one record.
C2_NoDoubleAssignment_AsStated ==
    \A m, n \in MoveIndices :
        m # n => moves_to_make[m].source # moves_to_make[n].source

\* C2, amended: no record of the inventory is in two assignments of the plan,
\* and the assignments follow the order of the records.
C2_NoDoubleAssignment ==
    \A m, n \in MoveIndices :
        m < n => moves_to_make[m].record < moves_to_make[n].record

\* two records of one file were both planned, each once
C2_Witness ==
    \E m, n \in MoveIndices :
        /\ m # n
        /\ moves_to_make[m].source = moves_to_make[n].source
        /\ moves_to_make[m].record # moves_to_make[n].record

Raised(n) == done_moves[n] \in {"mkdir raised", "move raised"}
InSomeReport(i) ==
    \E key \in DOMAIN pool_reports :
        \E j \in 1..Len(pool_reports[key]) : pool_reports[key][j] = i

\* C9: when executing an assignment fails (mkdir or move), the run still
\* reaches the report step, every other assignment whose source existed is
\* moved and in its pool's report, and the failed image is in no report.
C9_MoveFailureIsolation ==
    (\E n \in 1..Len(done_moves) : Raised(n)) =>
        /\ pc # "crashed"
        /\ \A n \in 1..Len(done_moves) :
               Raised(n) => ~InSomeReport(moves_to_make[n].record)
        /\ pc \in {"write", "done"} =>
               /\ Len(done_moves) = Len(moves_to_make)
               /\ \A n \in MoveIndices :
                      (~Raised(n) /\ done_moves[n] # "skipped") =>
                          /\ done_moves[n] = "moved"
                          /\ InSomeReport(moves_to_make[n].record)

NewPathStr(n) ==
    PathStr(Append(moves_to_make[n].dest, NameOf(moves_to_make[n].source)))
WasMoved(n) == done_moves[n] \in {"moved", "moved, KeyError"}
Occurrences(seq, x) == Cardinality({j \in 1..Len(seq) : seq[j] = x})

\* C10: after the execution pass every image that was moved has exactly one
\* row, with its new path and its tag string, in the report of its pool, and
\* no report is written for a pool without a moved image.
C10_ReportCompleteness ==
    /\ pc \in {"write", "done"} =>
           \A n \in MoveIndices :
               WasMoved(n) =>
                   LET move == moves_to_make[n]
                       row == [filepath |-> NewPathStr(n),
                               tags |-> image_data[move.record].tags]
                   IN  /\ move.pool_name \in DOMAIN pool_reports
                       /\ Occurrences(pool_reports[move.pool_name], move.record) = 1
                       /\ \A rep \in reports :
                              rep.pool_name = move.pool_name
                                  => Occurrences(rep.rows, row) = 1
    /\ \A rep \in reports :
           \E n \in MoveIndices :
               WasMoved(n) /\ moves_to_make[n].pool_name = rep.pool_name

\* the calls of the last command whose write step raised
WriteFailed(f) == last.results[f].called /\ ~last.results[f].write_ok

Normalized(t) == Lower(Strip(t)) = t

\* a stored list that is a normalized tag set
IsTagSet(subject) ==
    /\ \A i, j \in DOMAIN subject : subject[i] = subject[j] => i = j
    /\ \A i \in DOMAIN subject : subject[i] # <<>> /\ Normalized(subject[i])

\* C12: after any sequence of add, remove and auto-tag commands on files whose
\* stored tags were normalized, every file's stored tag set has no duplicate,
\* no empty-string tag and only lower-cased, trimmed tags.
C12_TagSetInvariant == \A f \in Files : IsTagSet(stored[f])

\* the assignment whose turn it is, and whether its source is gone
Turn == Len(done_moves) + 1
SourceMissing ==
    /\ pc = "execute"
    /\ Turn \in MoveIndices
    /\ moves_to_make[Turn].source \notin fs

\* C13: an assignment whose source file does not exist when its turn comes is
\* skipped: that step creates no directory, adds no report row, leaves every
\* record's filepath (and every file) as it was, and hands the turn to the
\* next assignment, or to the report step after the last one.
C13_MissingSourceSkipped ==
    [][SourceMissing =>
          /\ dirs' = dirs
          /\ pool_reports' = pool_reports
          /\ image_data' = image_data
          /\ fs' = fs
          /\ done_moves' = Append(done_moves, "skipped")
          /\ pc' = IF Turn < Len(moves_to_make) THEN "execute" ELSE "write"]_vars

\* the first assignment found its source gone: no directory was made for it,
\* its record still names the source, and the second one was moved and reported
C13_Witness ==
    /\ Len(done_moves) = 2
    /\ done_moves[1] = "skipped"
    /\ done_moves[2] = "moved"
    /\ moves_to_make[1].dest \notin dirs
    /\ image_data[moves_to_make[1].record].filepath = PathStr(moves_to_make[1].source)
    /\ ~InSomeReport(moves_to_make[1].record)
    /\ InSomeReport(moves_to_make[2].record)

\* C14: every report file written lies in the destination pool directory of
\* the images it lists: each row's filepath is in the same directory as the
\* report file, also when the pool took images from different directories.
C14_ReportLocation ==
    \A r \in reports :
        \A j \in 1..Len(r.rows) :
            ParentOf(PathOf(r.rows[j].filepath)) = ParentOf(r.path)

\* the distinct generated tags of f that f did not store before the merge
NewTagsOf(f) == ToSet(last.generated[f]) \ ToSet(pre[f])

\* C15: in a non-dry-run auto-tag, the total of tags added is the sum, over
\* the images tagged successfully, of the number of distinct generated tags the
\* image did not store before the merge; the average is that total divided by
\* the number of processed images.
C15_TagsAddedStatistic ==
    (last.cmd = "auto-tag" /\ ~last.dry_run) =>
        LET tagged == {f \in Files : last.results[f].success}
            new_tags == [f \in Files |-> Cardinality(NewTagsOf(f))]
        IN  /\ last.total_tags_added = SumOver(tagged, new_tags)
            /\ last.avg_tags = Quotient(SumOver(tagged, new_tags), last.processed_images)

====
